---- MODULE Spec2Model ----
(***************************************************************************)
(* A model of the GOTO register-machine interpreter of src/main.rs: the    *)
(* line parser (Instruction::try_from, parse_commands), the memory loader  *)
(* (read_input), the executor (GotoProgramState::run) and main, which      *)
(* chains them.                                                            *)
(*                                                                         *)
(* Text is a sequence of one-character strings.  A machine word (u64, and  *)
(* usize on a 64-bit target) is kept at its full width of 64 bits as four  *)
(* 16-bit limbs, least significant first, because TLC's integers are       *)
(* narrower than 64 bits.                                                  *)
(***************************************************************************)
EXTENDS Integers, Sequences, FiniteSets, TLC

\* ------------------------------------------------------------------ bounds

\* Longest program (in instructions) the executor is started on in SpecRun.
MaxProgLen == 2
\* How far from 0 or from u64::MAX the executor is followed: a step that would
\* take a register further from both ends than this is not taken. It is more
\* than MaxProgLen, so that a run that executes each instruction of its
\* program once is followed to its end.
MaxCount == 3
\* Longest initial memory (in registers) of SpecRun.
MaxMemLen == 2
\* Most tokens of an input text of SpecInput.
MaxInputLen == 2
\* Most lines of a source text of Spec.
MaxLines == 3
\* Most tokens after the first on a line of SpecLine.
MaxArgs == 3
\* Most space characters added to a line of SpecLine, over all its gaps.
MaxPad == 2

\* ------------------------------------------------------------ machine words

\* Width of u64 (memory: Vec<u64>) and of usize on a 64-bit target.
U64_BITS == 64

LimbBase == 2^16

NumLimbs == U64_BITS \div 16

\* The word of value n, for 0 <= n < LimbBase.
Word(n) == [i \in 1..NumLimbs |-> IF i = 1 THEN n ELSE 0]

\* u64::MAX = 2^64 - 1.
U64_MAX == [i \in 1..NumLimbs |-> LimbBase - 1]

\* w + 1 modulo 2^64, by ripple carry from limb i upwards.
RECURSIVE AddCarry(_, _)
AddCarry(w, i) ==
    IF i > NumLimbs THEN w
    ELSE IF w[i] = LimbBase - 1 THEN AddCarry([w EXCEPT ![i] = 0], i + 1)
    ELSE [w EXCEPT ![i] = w[i] + 1]

wrapping_add1(w) == AddCarry(w, 1)

\* w - 1 modulo 2^64, by ripple borrow from limb i upwards.
RECURSIVE SubBorrow(_, _)
SubBorrow(w, i) ==
    IF i > NumLimbs THEN w
    ELSE IF w[i] = 0 THEN SubBorrow([w EXCEPT ![i] = LimbBase - 1], i + 1)
    ELSE [w EXCEPT ![i] = w[i] - 1]

wrapping_sub1(w) == SubBorrow(w, 1)

\* Whether index w is within Vec v (the bounds check of v[w]).
InBounds(v, w) == (\A i \in 2..NumLimbs : w[i] = 0) /\ w[1] < Len(v)

\* v[w] for an index within bounds (Vec is 0-based, Seq is 1-based).
At(v, w) == v[w[1] + 1]

\* v with v[w] = x, for an index within bounds.
Store(v, w, x) == [v EXCEPT ![w[1] + 1] = x]

\* Whether w is within MaxCount of 0 or of u64::MAX.
Tracked(w) ==
    \/ (\A i \in 2..NumLimbs : w[i] = 0) /\ w[1] <= MaxCount
    \/ (\A i \in 2..NumLimbs : w[i] = LimbBase - 1)
          /\ w[1] >= LimbBase - 1 - MaxCount

\* --------------------------------------------------------------------- text

\* Result::Ok(v) and Result::Err(e).
Ok(v) == [ok |-> TRUE, val |-> v]
Err(e) == [ok |-> FALSE, err |-> e]

Digits == <<"0", "1", "2", "3", "4", "5", "6", "7", "8", "9">>

IsDigit(c) == \E d \in 1..Len(Digits) : Digits[d] = c

\* char::to_digit(10) of a decimal digit.
DigitVal(c) == (CHOOSE d \in 1..Len(Digits) : Digits[d] = c) - 1

\* w * 10 + carry over the limbs from i upwards: the 64-bit result and what
\* does not fit in it.
RECURSIVE MulAdd10(_, _, _)
MulAdd10(w, i, carry) ==
    IF i > NumLimbs THEN [val |-> w, carry |-> carry]
    ELSE LET t == w[i] * 10 + carry
         IN  MulAdd10([w EXCEPT ![i] = t % LimbBase], i + 1, t \div LimbBase)

\* The digit loop of from_str_radix(src, 10) for an unsigned 64-bit type:
\* each character must be a digit, then result * 10 and result + digit must
\* not overflow.
RECURSIVE ParseDigits(_, _)
ParseDigits(src, acc) ==
    IF src = <<>> THEN Ok(acc)
    ELSE IF ~IsDigit(Head(src)) THEN Err("InvalidDigit")
    ELSE LET r == MulAdd10(acc, 1, DigitVal(Head(src)))
         IN  IF r.carry > 0 THEN Err("PosOverflow")
             ELSE ParseDigits(Tail(src), r.val)

\* str::parse::<u64>() and, on a 64-bit target, str::parse::<usize>(): an
\* optional "+", then one or more decimal digits, no overflow.
parse_u64(src) ==
    IF src = <<>> THEN Err("Empty")
    ELSE IF Len(src) = 1 /\ Head(src) \in {"+", "-"} THEN Err("InvalidDigit")
    ELSE IF Head(src) = "+" THEN ParseDigits(Tail(src), Word(0))
    ELSE ParseDigits(src, Word(0))

\* str::split(pat): the pieces between separators, empty pieces included.
RECURSIVE SplitFrom(_, _, _)
SplitFrom(s, seps, cur) ==
    IF s = <<>> THEN <<cur>>
    ELSE IF Head(s) \in seps THEN <<cur>> \o SplitFrom(Tail(s), seps, <<>>)
    ELSE SplitFrom(Tail(s), seps, Append(cur, Head(s)))

split(s, seps) == SplitFrom(s, seps, <<>>)

\* .filter(|t| t.len() > 0)
filter_nonempty(pieces) == SelectSeq(pieces, LAMBDA t : Len(t) > 0)

\* lines as text.split('\n'): the piece after the last "\n" is a line too,
\* also when it is empty.
lines_split(text) == split(text, {"\n"})

\* str::lines(): the text cut after each "\n"; the "\n", and a "\r" right
\* before it, are not part of the line; no line follows a final "\n".
lines(text) ==
    LET pieces == split(text, {"\n"})
        n == Len(pieces)
        kept == IF pieces[n] = <<>> THEN n - 1 ELSE n
        strip(k) == LET l == pieces[k]
                    IN  IF k < n /\ l # <<>> /\ l[Len(l)] = "\r"
                        THEN SubSeq(l, 1, Len(l) - 1) ELSE l
    IN  [k \in 1..kept |-> strip(k)]

\* -------------------------------------------------------------- instructions

Stop == [op |-> "Stop"]
Inc(c) == [op |-> "Inc", cell |-> c]
Dec(c) == [op |-> "Dec", cell |-> c]
Goto(c) == [op |-> "Goto", cell |-> c]
GotoZ(c, g) == [op |-> "GotoZ", condition_cell |-> c, goto_cell |-> g]

\* The opcode tokens try_from matches on.
STOP == <<"S", "T", "O", "P">>
INC == <<"I", "N", "C">>
DEC == <<"D", "E", "C">>
GOTO == <<"G", "O", "T", "O">>
GOTOZ == <<"G", "O", "T", "O", "Z">>

\* ------------------------------------------------------------------- parser

\* An error message: the format string it is made with (up to its first
\* argument), the text it quotes, and for parse_nr the ParseIntError kind.
Msg(kind, arg, reason) == [kind |-> kind, arg |-> arg, reason |-> reason]

\* parse_nr: text.parse::<RegisterIndex>(), the error mapped to
\* "{} is not a number (reason: {:?})".
parse_nr(text) ==
    LET r == parse_u64(text)
    IN  IF r.ok THEN r ELSE Err(Msg("is not a number", text, r.err))

\* tokenize without its filter: the empty pieces between spaces are tokens.
tokenize_unfiltered(value) == split(value, {" "})

\* The tokens of a line: value.split(" ").filter(|t| t.len() > 0).collect()
tokenize(value) == filter_nonempty(split(value, {" "}))

\* try_from_one_cell parsing the operand before it counts the tokens.
try_from_one_cell_parse_first(value, tokens) ==
    LET cell == IF Len(tokens) >= 2 THEN parse_nr(tokens[2])
                ELSE Err(Msg("Not 2 tokens in", value, ""))
    IN  IF ~cell.ok THEN cell
        ELSE IF Len(tokens) = 2
        THEN Ok(CASE tokens[1] = INC -> Inc(cell.val)
                  [] tokens[1] = DEC -> Dec(cell.val)
                  [] tokens[1] = GOTO -> Goto(cell.val))
        ELSE Err(Msg("Not 2 tokens in", value, ""))

\* The "INC" | "DEC" | "GOTO" arm of try_from.
try_from_one_cell(value, tokens) ==
    IF Len(tokens) = 2
    THEN LET cell == parse_nr(tokens[2])
         IN  IF ~cell.ok THEN cell
             ELSE Ok(CASE tokens[1] = INC -> Inc(cell.val)
                       [] tokens[1] = DEC -> Dec(cell.val)
                       [] tokens[1] = GOTO -> Goto(cell.val))
    ELSE Err(Msg("Not 2 tokens in", value, ""))

\* The "GOTOZ" arm of try_from.
try_from_gotoz(value, tokens) ==
    IF Len(tokens) = 3
    THEN LET condition_cell == parse_nr(tokens[2])
             goto_cell == parse_nr(tokens[3])
         IN  IF ~condition_cell.ok THEN condition_cell
             ELSE IF ~goto_cell.ok THEN goto_cell
             ELSE Ok(GotoZ(condition_cell.val, goto_cell.val))
    ELSE Err(Msg("Not 3 tokens in", value, ""))

\* Instruction::try_from(value: String)
try_from(value) ==
    LET tokens == tokenize(value)
    IN  IF Len(tokens) > 0
        THEN CASE tokens[1] = STOP -> Ok(Stop)
               [] tokens[1] \in {INC, DEC, GOTO} ->
                      try_from_one_cell(value, tokens)
               [] tokens[1] = GOTOZ -> try_from_gotoz(value, tokens)
               [] OTHER -> Err(Msg("Unknown token", tokens[1], ""))
        ELSE Err(Msg("No tokens in", value, ""))

\* The error parse_commands makes of a line's error:
\* format!("error in line {}: {}", line_nr + 1, e), line_nr counted from 0.
line_error(nr, e) == [kind |-> "error in line", line |-> nr + 1, inner |-> e]

\* read_tokens leaving out the tokens that are no numbers (filter_map).
RECURSIVE read_tokens_skipping(_, _)
read_tokens_skipping(tokens, acc) ==
    IF tokens = <<>> THEN Ok(acc)
    ELSE LET nr == parse_u64(Head(tokens))
         IN  IF ~nr.ok THEN read_tokens_skipping(Tail(tokens), acc)
             ELSE read_tokens_skipping(Tail(tokens), Append(acc, nr.val))

\* The loop of read_input over the tokens: the numbers so far, or the first
\* token's error "Number parsing error: {}".
RECURSIVE read_tokens(_, _)
read_tokens(tokens, acc) ==
    IF tokens = <<>> THEN Ok(acc)
    ELSE LET nr == parse_u64(Head(tokens))
         IN  IF ~nr.ok THEN Err(Msg("Number parsing error", <<>>, nr.err))
             ELSE read_tokens(Tail(tokens), Append(acc, nr.val))

\* read_input(text: String)
read_input(text) ==
    read_tokens(filter_nonempty(split(text, {" ", "\n"})), <<>>)

\* -------------------------------------------------------------------- state

VARIABLES
    program_code,     \* main: the text of the source file
    input_text,       \* main: the text of the input file
    main_pc,          \* where main is: "read_code", "parse_commands",
                      \* "read_input", "run", "done" (returned) or "panicked"
    line_nr,          \* parse_commands: lines consumed so far (enumerate index)
    result,           \* parse_commands: the Vec being built
    program,          \* GotoProgram.instructions
    program_counter,  \* GotoProgramState.program_counter
    memory,           \* GotoProgramState.memory
    printed,          \* run: the number of lines its println! has written,
                      \* modulo 2
    panic,            \* the panic that ended the process, or NoPanic
    overflow_checks   \* the build: TRUE panics on integer overflow (debug
                      \* profile), FALSE wraps (release profile)

vars == <<program_code, input_text, main_pc, line_nr, result, program,
          program_counter, memory, printed, panic, overflow_checks>>

NoPanic == [kind |-> "none"]

IndexOutOfBounds == [kind |-> "index out of bounds"]

AddOverflow == [kind |-> "attempt to add with overflow"]

SubOverflow == [kind |-> "attempt to subtract with overflow"]

\* ----------------------------------------------------------------- executor

\* The process dies with panic p; the state it leaves is never read again.
Panics(p) ==
    /\ main_pc' = "panicked"
    /\ panic' = p
    /\ UNCHANGED <<program_code, input_text, line_nr, result, program,
                   program_counter, memory, overflow_checks>>

\* One iteration of run's loop continues with the given counter and memory.
Continue(pc, mem) ==
    /\ program_counter' = pc
    /\ memory' = mem
    /\ UNCHANGED <<program_code, input_text, main_pc, line_nr, result,
                   program, panic, overflow_checks>>

Running == main_pc = "run"

\* run returning when the counter leaves the program (a while loop on
\* program_counter < instructions.len()).
run_fetch_halting ==
    /\ Running
    /\ ~InBounds(program, program_counter)
    /\ main_pc' = "done"
    /\ UNCHANGED <<program_code, input_text, line_nr, result, program,
                   program_counter, memory, printed, panic, overflow_checks>>

\* run starting over at instruction 0 when the counter leaves the program.
run_fetch_restarting ==
    /\ Running
    /\ ~InBounds(program, program_counter)
    /\ Continue(Word(0), memory)
    /\ printed' = 1 - printed

\* self.program.instructions[self.program_counter] with the counter out of
\* bounds: the indexing of the first println! panics.
run_fetch_panic ==
    /\ Running
    /\ ~InBounds(program, program_counter)
    /\ Panics(IndexOutOfBounds)
    /\ UNCHANGED printed

\* The instruction at the counter is fetched and println! writes the state
\* and the instruction, before the match on the instruction.
Fetched(op) ==
    /\ Running
    /\ InBounds(program, program_counter)
    /\ At(program, program_counter).op = op
    /\ printed' = 1 - printed

\* run_Stop falling through to an increment of the counter before it breaks.
run_Stop_advancing ==
    /\ Fetched("Stop")
    /\ main_pc' = "done"
    /\ program_counter' = wrapping_add1(program_counter)
    /\ UNCHANGED <<program_code, input_text, line_nr, result, program,
                   memory, panic, overflow_checks>>

\* Instruction::Stop => break; run returns and main prints the result.
run_Stop ==
    /\ Fetched("Stop")
    /\ main_pc' = "done"
    /\ UNCHANGED <<program_code, input_text, line_nr, result, program,
                   program_counter, memory, panic, overflow_checks>>

\* run_Inc without its program_counter += 1.
run_Inc_not_advancing ==
    /\ Fetched("Inc")
    /\ LET cell == At(program, program_counter).cell IN
       IF ~InBounds(memory, cell) THEN Panics(IndexOutOfBounds)
       ELSE IF At(memory, cell) = U64_MAX /\ overflow_checks
       THEN Panics(AddOverflow)
       ELSE /\ Tracked(wrapping_add1(At(memory, cell)))
            /\ Continue(program_counter,
                        Store(memory, cell, wrapping_add1(At(memory, cell))))

\* Instruction::Inc { cell } => memory[cell] += 1; program_counter += 1
run_Inc ==
    /\ Fetched("Inc")
    /\ LET cell == At(program, program_counter).cell IN
       IF ~InBounds(memory, cell) THEN Panics(IndexOutOfBounds)
       ELSE IF At(memory, cell) = U64_MAX /\ overflow_checks
       THEN Panics(AddOverflow)
       ELSE /\ Tracked(wrapping_add1(At(memory, cell)))
            /\ Continue(wrapping_add1(program_counter),
                        Store(memory, cell, wrapping_add1(At(memory, cell))))

\* run_Dec with the += 1 of run_Inc in place of its -= 1.
run_Dec_adding ==
    /\ Fetched("Dec")
    /\ LET cell == At(program, program_counter).cell IN
       IF ~InBounds(memory, cell) THEN Panics(IndexOutOfBounds)
       ELSE IF At(memory, cell) = U64_MAX /\ overflow_checks
       THEN Panics(AddOverflow)
       ELSE /\ Tracked(wrapping_add1(At(memory, cell)))
            /\ Continue(wrapping_add1(program_counter),
                        Store(memory, cell, wrapping_add1(At(memory, cell))))

\* Instruction::Dec { cell } => memory[cell] -= 1; program_counter += 1
run_Dec ==
    /\ Fetched("Dec")
    /\ LET cell == At(program, program_counter).cell IN
       IF ~InBounds(memory, cell) THEN Panics(IndexOutOfBounds)
       ELSE IF At(memory, cell) = Word(0) /\ overflow_checks
       THEN Panics(SubOverflow)
       ELSE /\ Tracked(wrapping_sub1(At(memory, cell)))
            /\ Continue(wrapping_add1(program_counter),
                        Store(memory, cell, wrapping_sub1(At(memory, cell))))

\* run_Goto followed by the program_counter += 1 of the other instructions.
run_Goto_advancing ==
    /\ Fetched("Goto")
    /\ Continue(wrapping_add1(At(program, program_counter).cell), memory)

\* Instruction::Goto { cell } => program_counter = cell
run_Goto ==
    /\ Fetched("Goto")
    /\ Continue(At(program, program_counter).cell, memory)

\* run_GotoZ reading a register that does not exist as 0 (memory.get(..)
\* with a default) where the indexing panics.
run_GotoZ_missing_as_zero ==
    /\ Fetched("GotoZ")
    /\ LET i == At(program, program_counter) IN
       IF ~InBounds(memory, i.condition_cell)
       THEN Continue(i.goto_cell, memory)
       ELSE IF At(memory, i.condition_cell) = Word(0)
       THEN Continue(i.goto_cell, memory)
       ELSE Continue(wrapping_add1(program_counter), memory)

\* run_GotoZ with its test inverted: it jumps on a register that is not 0.
run_GotoZ_inverted ==
    /\ Fetched("GotoZ")
    /\ LET i == At(program, program_counter) IN
       IF ~InBounds(memory, i.condition_cell) THEN Panics(IndexOutOfBounds)
       ELSE IF At(memory, i.condition_cell) # Word(0)
       THEN Continue(i.goto_cell, memory)
       ELSE Continue(wrapping_add1(program_counter), memory)

\* Instruction::GotoZ { condition_cell, goto_cell } =>
\*     if memory[condition_cell] == 0 { program_counter = goto_cell }
\*     else { program_counter += 1 }
run_GotoZ ==
    /\ Fetched("GotoZ")
    /\ LET i == At(program, program_counter) IN
       IF ~InBounds(memory, i.condition_cell) THEN Panics(IndexOutOfBounds)
       ELSE IF At(memory, i.condition_cell) = Word(0)
       THEN Continue(i.goto_cell, memory)
       ELSE Continue(wrapping_add1(program_counter), memory)

\* GotoProgramState::run, one loop iteration at a time.
run ==
    \/ run_fetch_panic
    \/ run_Stop
    \/ run_Inc
    \/ run_Dec
    \/ run_Goto
    \/ run_GotoZ

\* --------------------------------------------------------------------- main

\* .expect(msg) on an Err: main panics with msg and the error.
Expect(msg, e) == [kind |-> msg, error |-> e]

\* main at read_to_string(source_file): the text is read, or the file cannot
\* be read and expect("Error while reading code") panics.
main_read_code ==
    /\ main_pc = "read_code"
    /\ \E readable \in BOOLEAN :
         IF readable
         THEN /\ main_pc' = "parse_commands"
              /\ UNCHANGED panic
         ELSE /\ main_pc' = "panicked"
              /\ panic' = Expect("Error while reading code", <<>>)
    /\ UNCHANGED <<program_code, input_text, line_nr, result, program,
                   program_counter, memory, overflow_checks, printed>>

\* parse_commands_line inserting the instruction at the front of result.
parse_commands_line_prepending ==
    /\ main_pc = "parse_commands"
    /\ line_nr < Len(lines(program_code))
    /\ LET instruction == try_from(lines(program_code)[line_nr + 1]) IN
       IF instruction.ok
       THEN /\ result' = <<instruction.val>> \o result
            /\ line_nr' = line_nr + 1
            /\ UNCHANGED <<program_code, input_text, main_pc, program,
                           program_counter, memory, panic, overflow_checks, printed>>
       ELSE /\ main_pc' = "panicked"
            /\ panic' = Expect("Error while parsing code",
                               line_error(line_nr, instruction.err))
            /\ result' = <<>>
            /\ UNCHANGED <<program_code, input_text, line_nr, program,
                           program_counter, memory, overflow_checks, printed>>

\* parse_commands, one iteration of its loop over text.lines().enumerate():
\* the line's instruction is pushed, or its error ends the function, and
\* main's expect("Error while parsing code") the process.
parse_commands_line ==
    /\ main_pc = "parse_commands"
    /\ line_nr < Len(lines(program_code))
    /\ LET instruction == try_from(lines(program_code)[line_nr + 1]) IN
       IF instruction.ok
       THEN /\ result' = Append(result, instruction.val)
            /\ line_nr' = line_nr + 1
            /\ UNCHANGED <<program_code, input_text, main_pc, program,
                           program_counter, memory, panic, overflow_checks, printed>>
       ELSE /\ main_pc' = "panicked"
            /\ panic' = Expect("Error while parsing code",
                               line_error(line_nr, instruction.err))
            /\ result' = <<>>
            /\ UNCHANGED <<program_code, input_text, line_nr, program,
                           program_counter, memory, overflow_checks, printed>>

\* parse_commands after the last line: Ok(result); main goes on to the input.
parse_commands_return ==
    /\ main_pc = "parse_commands"
    /\ line_nr = Len(lines(program_code))
    /\ main_pc' = "read_input"
    /\ UNCHANGED <<program_code, input_text, line_nr, result, program,
                   program_counter, memory, panic, overflow_checks, printed>>

parse_commands == parse_commands_line \/ parse_commands_return

\* main_read_input running on an empty memory (unwrap_or_default) when the
\* input does not parse.
main_read_input_defaulting ==
    /\ main_pc = "read_input"
    /\ \E readable \in BOOLEAN :
       LET loaded == read_input(input_text) IN
       IF ~readable
       THEN /\ main_pc' = "panicked"
            /\ panic' = Expect("Error while reading input", <<>>)
            /\ UNCHANGED <<program_code, input_text, line_nr, result,
                           program, program_counter, memory, overflow_checks,
                           printed>>
       ELSE /\ main_pc' = "run"
            /\ program' = result
            /\ program_counter' = Word(0)
            /\ memory' = IF loaded.ok THEN loaded.val ELSE <<>>
            /\ UNCHANGED <<program_code, input_text, line_nr, result, panic,
                           overflow_checks, printed>>

\* main from read_to_string(input_file) to the call of run: the input file is
\* read (or expect("Error while reading input") panics), the memory is loaded
\* (or expect("Error while parsing input") panics), the program and its state
\* are built with program_counter 0.
main_read_input ==
    /\ main_pc = "read_input"
    /\ \E readable \in BOOLEAN :
       LET loaded == read_input(input_text) IN
       IF ~readable
       THEN /\ main_pc' = "panicked"
            /\ panic' = Expect("Error while reading input", <<>>)
            /\ UNCHANGED <<program_code, input_text, line_nr, result,
                           program, program_counter, memory, overflow_checks, printed>>
       ELSE IF loaded.ok
       THEN /\ main_pc' = "run"
            /\ program' = result
            /\ program_counter' = Word(0)
            /\ memory' = loaded.val
            /\ UNCHANGED <<program_code, input_text, line_nr, result, panic,
                           overflow_checks, printed>>
       ELSE /\ main_pc' = "panicked"
            /\ panic' = Expect("Error while parsing input", loaded.err)
            /\ UNCHANGED <<program_code, input_text, line_nr, result,
                           program, program_counter, memory, overflow_checks, printed>>

\* ------------------------------------------------- the executor on its own

\* Register indices and jump targets: with memories and programs of 0 to 2
\* and more cells, both are in bounds in some runs and out of bounds in others.
Operands == {Word(0), Word(1)}

Instructions ==
    {Stop}
    \cup {Inc(c) : c \in Operands}
    \cup {Dec(c) : c \in Operands}
    \cup {Goto(c) : c \in Operands}
    \cup {GotoZ(c, g) : c \in Operands, g \in Operands}

SeqsUpTo(S, n) == UNION {[1..k -> S] : k \in 0..n}

\* Register values at and next to both ends of the u64 range.
U64Samples == {Word(0), Word(1), U64_MAX}

\* run entered as main enters it (program_counter 0), on any program and
\* memory within the bounds.
InitRun ==
    /\ program_code = <<>>
    /\ input_text = <<>>
    /\ main_pc = "run"
    /\ line_nr = 0
    /\ result = <<>>
    /\ program \in SeqsUpTo(Instructions, MaxProgLen)
    /\ program_counter = Word(0)
    /\ memory \in SeqsUpTo(U64Samples, MaxMemLen)
    /\ printed = 0
    /\ panic = NoPanic
    /\ overflow_checks \in BOOLEAN

SpecRun == InitRun /\ [][run]_vars

\* ------------------------------------------------------------- whole runs

Spaces(k) == [i \in 1..k |-> " "]

\* The tokens ws[i..] laid out on a line, pad[i] extra spaces after token i
\* and one more between two tokens.
RECURSIVE RenderFrom(_, _, _)
RenderFrom(ws, pad, i) ==
    IF i > Len(ws) THEN <<>>
    ELSE ws[i] \o Spaces(pad[i] + (IF i < Len(ws) THEN 1 ELSE 0))
               \o RenderFrom(ws, pad, i + 1)

\* The line of tokens ws with pad[0] leading spaces.
Render(ws, pad) == Spaces(pad[0]) \o RenderFrom(ws, pad, 1)

\* The line of tokens ws, single-spaced.
Line(ws) == Render(ws, [i \in 0..Len(ws) |-> 0])

\* The lines ls[i..], a "\n" between two of them.
RECURSIVE JoinFrom(_, _)
JoinFrom(ls, i) ==
    IF i > Len(ls) THEN <<>>
    ELSE ls[i] \o (IF i < Len(ls) THEN <<"\n">> ELSE <<>>) \o JoinFrom(ls, i + 1)

Join(ls) == JoinFrom(ls, 1)

FOO == <<"F", "O", "O">>

\* The lines source texts of Spec are made of: instructions, and lines the
\* grammar rejects (no token, unknown opcode, a token too many).
MainLines ==
    { Line(<<STOP>>), Line(<<INC, <<"0">>>>), Line(<<GOTO, <<"0">>>>),
      Line(<<>>), Line(<<FOO, <<"1">>>>), Line(<<STOP, <<"0">>>>) }

\* The source of test_parse_commands: its lines after the first are indented.
TestSource ==
    Join(<<Line(<<INC, <<"1">>>>),
           Spaces(4) \o Line(<<DEC, <<"2">>>>),
           Spaces(4) \o Line(<<GOTO, <<"3">>>>),
           Spaces(4) \o Line(<<STOP>>)>>)

\* "INC 0\nGOTOZ 0 3\nINC 0\nSTOP"
CountSource ==
    Join(<<Line(<<INC, <<"0">>>>), Line(<<GOTOZ, <<"0">>, <<"3">>>>),
           Line(<<INC, <<"0">>>>), Line(<<STOP>>)>>)

\* "GOTOZ 0 2\nINC 0\nSTOP"
SkipSource ==
    Join(<<Line(<<GOTOZ, <<"0">>, <<"2">>>>), Line(<<INC, <<"0">>>>),
           Line(<<STOP>>)>>)

\* "DEC 0\nGOTOZ 0 0\nSTOP": counts register 0 down to 0.
DownSource ==
    Join(<<Line(<<DEC, <<"0">>>>), Line(<<GOTOZ, <<"0">>, <<"0">>>>),
           Line(<<STOP>>)>>)

\* Source texts ending in a line terminator, "\n" or "\r\n".
TerminatedSources ==
    { Join(<<Line(<<INC, <<"0">>>>), Line(<<STOP>>), <<>>>>),
      Line(<<INC, <<"0">>>>) \o <<"\r", "\n">> \o Line(<<STOP>>)
          \o <<"\r", "\n">>,
      Join(<<Line(<<INC, <<"0">>, <<"0">>>>), <<>>>>) }

Sources ==
    {Join(ls) : ls \in SeqsUpTo(MainLines, MaxLines)}
    \cup {TestSource, CountSource, SkipSource, DownSource}
    \cup TerminatedSources

U64_MAX_TEXT ==
    <<"1", "8", "4", "4", "6", "7", "4", "4", "0", "7",
      "3", "7", "0", "9", "5", "5", "1", "6", "1", "5">>

\* Input texts: no register, registers at both ends of the u64 range on one
\* and on two lines, a token that is no number.
Inputs ==
    { <<>>,
      <<"0">>,
      <<"1", " ", "0", "\n">>,
      U64_MAX_TEXT \o <<"\n", " ", "0">>,
      <<"1", " ", "x", " ", "2">> }

\* main after cli_arguments: the two files hold their texts, nothing is
\* read yet.
Init ==
    /\ program_code \in Sources
    /\ input_text \in Inputs
    /\ main_pc = "read_code"
    /\ line_nr = 0
    /\ result = <<>>
    /\ program = <<>>
    /\ program_counter = Word(0)
    /\ memory = <<>>
    /\ printed = 0
    /\ panic = NoPanic
    /\ overflow_checks \in BOOLEAN

Next ==
    \/ main_read_code
    \/ parse_commands
    \/ main_read_input
    \/ run

Spec == Init /\ [][Next]_vars

\* --------------------------------------------------- the parser on one line

\* Tokens after the first: a number, and a token that is none.
ArgTokens == {<<"1", "0">>, <<"x">>}

FirstTokens == {STOP, INC, DEC, GOTO, GOTOZ, FOO, <<"1", "0">>}

\* The token lists of a line: none, or a first token and up to MaxArgs more.
LineWords ==
    {<<>>} \cup {<<f>> \o args : f \in FirstTokens,
                                 args \in SeqsUpTo(ArgTokens, MaxArgs)}

RECURSIVE SumTo(_, _)
SumTo(pad, n) == IF n < 0 THEN 0 ELSE pad[n] + SumTo(pad, n - 1)

\* The ways to add at most MaxPad spaces before, between and after n tokens.
Pads(n) == {pad \in [0..n -> 0..MaxPad] : SumTo(pad, n) <= MaxPad}

U64_OVER_TEXT ==
    <<"1", "8", "4", "4", "6", "7", "4", "4", "0", "7",
      "3", "7", "0", "9", "5", "5", "1", "6", "1", "6">>

\* Lines whose operand is at an edge of what parse accepts.
EdgeLines ==
    { Line(<<INC, U64_MAX_TEXT>>), Line(<<INC, U64_OVER_TEXT>>),
      Line(<<INC, <<"+", "1">>>>), Line(<<INC, <<"-", "1">>>>),
      Line(<<INC, <<"+">>>>), Line(<<INC, <<"0", "0", "7">>>>),
      Line(<<GOTOZ, <<"x">>, <<"y">>>>), Line(<<GOTOZ, <<"1">>, <<"1", "x">>>>),
      Line(<<<<"s", "t", "o", "p">>>>), Line(<<<<"S", "T", "O", "P", "S">>>>),
      <<"I", "N", "C", "\t", "1">> }

\* parse_commands started on a text of one line.
InitLine ==
    /\ program_code \in
           UNION {{Render(ws, pad) : pad \in Pads(Len(ws))} : ws \in LineWords}
           \cup EdgeLines
    /\ input_text = <<>>
    /\ main_pc = "parse_commands"
    /\ line_nr = 0
    /\ result = <<>>
    /\ program = <<>>
    /\ program_counter = Word(0)
    /\ memory = <<>>
    /\ printed = 0
    /\ panic = NoPanic
    /\ overflow_checks = TRUE

SpecLine == InitLine /\ [][parse_commands]_vars

\* ------------------------------------------------ read_input on one text

\* Tokens of an input text: a number, a numeral one more than the largest
\* u64, a token that is no numeral.
InputTokens == {<<"1", "2">>, U64_OVER_TEXT, <<"x">>}

Separators == {" ", "\n"}

\* The length of gap g of n tokens (gap 0 before the first token, gap n after
\* the last): pad[g] separators, and one more between two tokens.
GapLen(pad, n, g) == pad[g] + (IF 0 < g /\ g < n THEN 1 ELSE 0)

RECURSIVE GapsLen(_, _, _)
GapsLen(pad, n, g) ==
    IF g < 0 THEN 0 ELSE GapLen(pad, n, g) + GapsLen(pad, n, g - 1)

\* The text from gap g on: the gaps take their separators from seps in turn.
RECURSIVE InputFrom(_, _, _, _)
InputFrom(ws, pad, seps, g) ==
    LET n == Len(ws)
        gap == SubSeq(seps, GapsLen(pad, n, g - 1) + 1, GapsLen(pad, n, g))
    IN  IF g = n THEN gap
        ELSE gap \o ws[g + 1] \o InputFrom(ws, pad, seps, g + 1)

\* The texts of the tokens ws, in every layout of at most MaxPad separators
\* more than the one between two tokens, each a space or a newline.
InputsOf(ws) ==
    UNION {{InputFrom(ws, pad, seps, 0) :
                seps \in [1..GapsLen(pad, Len(ws), Len(ws)) -> Separators]} :
           pad \in Pads(Len(ws))}

\* Texts at the edges of what read_input splits and parse accepts.
EdgeInputs ==
    { U64_MAX_TEXT, <<"\n">> \o U64_MAX_TEXT \o <<" ", "\n", "1", "2">>,
      <<"0">>, <<"+", "7">>, <<"-", "1">>, <<"+">>, <<"0", "0", "7">>,
      <<"1", "\r", "\n", "2">>, <<"1", "\t", "2">>, <<"1", ",", "2">>,
      <<"1", " ", "x", " ", "2">> }

\* main about to read the input, after a source of no line.
InitInput ==
    /\ program_code = <<>>
    /\ input_text \in
           UNION {InputsOf(ws) : ws \in SeqsUpTo(InputTokens, MaxInputLen)}
           \cup EdgeInputs
    /\ main_pc = "read_input"
    /\ line_nr = 0
    /\ result = <<>>
    /\ program = <<>>
    /\ program_counter = Word(0)
    /\ memory = <<>>
    /\ printed = 0
    /\ panic = NoPanic
    /\ overflow_checks = TRUE

SpecInput == InitInput /\ [][main_read_input]_vars

\* ------------------------------------------------------ claims: the executor

\* b = a + 1 as integers (not modulo 2^64): the limbs below some limb k go
\* from all-ones to zero, limb k goes up by one, the limbs above stay.
PlusOne(a, b) ==
    \E k \in 1..NumLimbs :
        /\ \A i \in 1..(k - 1) : a[i] = LimbBase - 1 /\ b[i] = 0
        /\ a[k] < LimbBase - 1 /\ b[k] = a[k] + 1
        /\ \A i \in (k + 1)..NumLimbs : b[i] = a[i]

IsZero(w) == \A i \in 1..NumLimbs : w[i] = 0

\* The instruction at program_counter, when the executor is about to fetch
\* one that exists.
AtInstruction(op) ==
    /\ main_pc = "run"
    /\ InBounds(program, program_counter)
    /\ program[program_counter[1] + 1].op = op

Current == program[program_counter[1] + 1]

\* Register r (0-based) of memory m.
Reg(m, r) == m[r[1] + 1]

OthersUnchanged(r) ==
    /\ Len(memory') = Len(memory)
    /\ \A k \in 1..Len(memory) : k # r[1] + 1 => memory'[k] = memory[k]

\* C1: a step at a Stop instruction halts the executor and changes neither
\* memory nor program_counter; after the halt memory never changes again, so
\* it is the final memory; the source "STOP" on input "0" ends with memory [0].
C1_StopHalts ==
    /\ [][ /\ AtInstruction("Stop") =>
                /\ main_pc' = "done"
                /\ memory' = memory
                /\ program_counter' = program_counter
           /\ main_pc = "done" => main_pc' = "done" /\ memory' = memory
         ]_vars
    /\ [](main_pc = "done" /\ program_code = Line(<<STOP>>)
              /\ input_text = <<"0">>
            => memory = <<Word(0)>>)

C1_Witness ==
    /\ main_pc = "done"
    /\ program_code = Line(<<STOP>>)
    /\ input_text = <<"0">>
    /\ memory = <<Word(0)>>

\* C2: a step at GotoZ{condition_cell, goto_cell} with condition_cell in
\* range sets program_counter to goto_cell if the register is exactly 0 and
\* to program_counter + 1 for every other value, and changes no register.
C2_GotoZBranches ==
    [][ (AtInstruction("GotoZ") /\ InBounds(memory, Current.condition_cell))
          => /\ memory' = memory
             /\ main_pc' = "run"
             /\ IF IsZero(Reg(memory, Current.condition_cell))
                THEN program_counter' = Current.goto_cell
                ELSE PlusOne(program_counter, program_counter')
      ]_vars

\* GotoZ{0, 0} at address 0 fell through to address 1 on the value u64::MAX.
C2_Witness ==
    /\ main_pc = "run"
    /\ program = <<GotoZ(Word(0), Word(0)), Stop>>
    /\ memory = <<U64_MAX>>
    /\ program_counter = Word(1)

\* What C3 says an Inc step does.
IncEffect ==
    /\ main_pc' = "run"
    /\ PlusOne(Reg(memory, Current.cell), Reg(memory', Current.cell))
    /\ OthersUnchanged(Current.cell)
    /\ PlusOne(program_counter, program_counter')

\* C3 as stated: a step at Inc{cell} with cell in range leaves memory[cell]
\* one more than before, every other register and the length of memory
\* unchanged, and program_counter advanced by exactly 1.
C3_IncAlways ==
    [][ (AtInstruction("Inc") /\ InBounds(memory, Current.cell)) => IncEffect
      ]_vars

\* C3 as amended: the same, for a register that holds less than 2^64 - 1.
C3_IncBelowMax ==
    [][ (/\ AtInstruction("Inc")
         /\ InBounds(memory, Current.cell)
         /\ Reg(memory, Current.cell) # U64_MAX) => IncEffect
      ]_vars

\* Inc{1} has taken register 1 from 0 to 1 and left register 0 alone.
C3_Witness ==
    /\ main_pc = "run"
    /\ program = <<Inc(Word(1))>>
    /\ memory = <<U64_MAX, Word(1)>>
    /\ program_counter = Word(1)

\* C4: a step at Dec{cell} with cell in range and memory[cell] > 0 leaves
\* memory[cell] one less than before, every other register unchanged, and
\* program_counter advanced by exactly 1.
C4_DecAbovezero ==
    [][ (/\ AtInstruction("Dec")
         /\ InBounds(memory, Current.cell)
         /\ ~IsZero(Reg(memory, Current.cell)))
          => /\ main_pc' = "run"
             /\ PlusOne(Reg(memory', Current.cell), Reg(memory, Current.cell))
             /\ OthersUnchanged(Current.cell)
             /\ PlusOne(program_counter, program_counter')
      ]_vars

\* Dec{0} has taken register 0 from 1 to 0 and left register 1 alone.
C4_Witness ==
    /\ main_pc = "run"
    /\ program = <<Dec(Word(0))>>
    /\ memory = <<Word(0), Word(1)>>
    /\ program_counter = Word(1)

\* C5: a step at Goto{cell} sets program_counter to cell itself, with no
\* further increment, and changes no register.
C5_GotoAbsolute ==
    [][ AtInstruction("Goto")
          => /\ program_counter' = Current.cell
             /\ memory' = memory
             /\ main_pc' = "run"
      ]_vars

\* Goto{1} at address 0 has set program_counter to 1, not 2.
C5_Witness ==
    /\ main_pc = "run"
    /\ program = <<Goto(Word(1)), Stop>>
    /\ memory = <<Word(1)>>
    /\ program_counter = Word(1)

\* -------------------------------------------------------- claims: the parser

\* The grammar's tokens of a line: its maximal runs of characters other than
\* the space, from left to right.
TokenStarts(s) ==
    {i \in 1..Len(s) : s[i] # " " /\ (i = 1 \/ s[i - 1] = " ")}

TokenEnd(s, i) ==
    CHOOSE j \in i..Len(s) :
        /\ \A k \in i..j : s[k] # " "
        /\ j = Len(s) \/ s[j + 1] = " "

GrammarTokens(s) ==
    LET starts == TokenStarts(s)
        nth(n) == CHOOSE i \in starts :
                      Cardinality({j \in starts : j < i}) = n - 1
    IN  [n \in 1..Cardinality(starts) |->
            SubSeq(s, nth(n), TokenEnd(s, nth(n)))]

\* Whether the decimal numeral d (digits only) is at most 2^64 - 1: without
\* its leading zeros it is shorter than "18446744073709551615", or as long
\* and not after it in dictionary order.
NumeralInRange(d) ==
    LET zeros == CHOOSE z \in 0..Len(d) :
                     /\ \A k \in 1..z : d[k] = "0"
                     /\ z = Len(d) \/ d[z + 1] # "0"
        sig == SubSeq(d, zeros + 1, Len(d))
    IN  \/ Len(sig) < Len(U64_MAX_TEXT)
        \/ /\ Len(sig) = Len(U64_MAX_TEXT)
           /\ ~\E k \in 1..Len(sig) :
                  /\ \A j \in 1..(k - 1) : sig[j] = U64_MAX_TEXT[j]
                  /\ DigitVal(sig[k]) > DigitVal(U64_MAX_TEXT[k])

\* A token that denotes a non-negative integer a RegisterIndex can hold:
\* decimal digits, a "+" allowed before them.
IsOperand(t) ==
    LET d == IF t # <<>> /\ t[1] = "+" THEN Tail(t) ELSE t
    IN  /\ d # <<>>
        /\ \A k \in 1..Len(d) : IsDigit(d[k])
        /\ NumeralInRange(d)

\* The token counts of the grammar: STOP alone, INC/DEC/GOTO with one
\* operand, GOTOZ with two.
WellFormed(s) ==
    LET t == GrammarTokens(s)
    IN  /\ Len(t) >= 1
        /\ \/ t[1] = STOP /\ Len(t) = 1
           \/ t[1] \in {INC, DEC, GOTO} /\ Len(t) = 2 /\ IsOperand(t[2])
           \/ t[1] = GOTOZ /\ Len(t) = 3 /\ IsOperand(t[2]) /\ IsOperand(t[3])

\* main panicked on the error parse_commands returned.
ParseFailed ==
    main_pc = "panicked" /\ panic.kind = "Error while parsing code"

\* parse_commands returned Ok(result).
ParseReturned ==
    \/ main_pc \in {"read_input", "run", "done"}
    \/ main_pc = "panicked"
         /\ panic.kind \notin {"Error while reading code",
                               "Error while parsing code"}

SourceLines == lines(program_code)

MalformedLines ==
    {k \in 1..Len(SourceLines) : ~WellFormed(SourceLines[k])}

\* C6: on a source whose lines are all well-formed parse_commands returns
\* Ok, and the k-th instruction it returns is the parse of the k-th line, as
\* many instructions as lines; the source of test_parse_commands gives
\* [Inc{1}, Dec{2}, Goto{3}, Stop].
C6_LineOrder ==
    /\ MalformedLines = {} =>
          /\ ~ParseFailed
          /\ ParseReturned =>
                /\ Len(result) = Len(SourceLines)
                /\ \A k \in 1..Len(result) :
                       Ok(result[k]) = try_from(SourceLines[k])
    /\ (program_code = TestSource /\ ParseReturned) =>
          result = <<Inc(Word(1)), Dec(Word(2)), Goto(Word(3)), Stop>>

C6_Witness ==
    /\ main_pc = "read_input"
    /\ program_code = TestSource
    /\ result = <<Inc(Word(1)), Dec(Word(2)), Goto(Word(3)), Stop>>

\* The first malformed line of the source (1-based).
FirstMalformed ==
    CHOOSE k \in MalformedLines : \A j \in MalformedLines : k <= j

\* C7: if a line of the source is malformed, parse_commands never returns
\* Ok; the error it returns carries the 1-based number of the first
\* malformed line and no instruction, and no line after that one is examined.
C7_FailFast ==
    MalformedLines # {} =>
        /\ ~ParseReturned
        /\ line_nr < FirstMalformed
        /\ ParseFailed =>
              /\ panic.error.line = FirstMalformed
              /\ result = <<>>
              /\ program = <<>>

\* The outcome of try_from on the single line of the source, once
\* parse_commands has dealt with it.
LineDone == Len(SourceLines) = 1 /\ (line_nr = 1 \/ ParseFailed)

LineOutcome == IF ParseFailed THEN Err(panic.error.inner) ELSE Ok(result[1])

\* C8: a line yields an instruction if and only if it is well-formed under
\* the grammar's token counts; every other line yields an error.
C8_GrammarExact == LineDone => (LineOutcome.ok <=> WellFormed(SourceLines[1]))

\* Whether two results of try_from are the same instruction, or errors of
\* the same kind about the same token.
SameOutcome(a, b) ==
    /\ a.ok = b.ok
    /\ a.ok => a.val = b.val
    /\ ~a.ok =>
          /\ a.err.kind = b.err.kind
          /\ a.err.reason = b.err.reason
          /\ a.err.kind \in {"Unknown token", "is not a number"}
                => a.err.arg = b.err.arg

\* C9: a line with extra spaces before, between or after its tokens parses
\* to what its tokens separated by single spaces parse to.
C9_PaddingIgnored ==
    LineDone =>
        SameOutcome(LineOutcome, try_from(Line(GrammarTokens(SourceLines[1]))))

\* " INC  10" (a space added in front, one inside) parsed to Inc{10}.
C9_Witness ==
    /\ program_code = Spaces(1) \o INC \o Spaces(2) \o <<"1", "0">>
    /\ line_nr = 1
    /\ result = <<Inc(Word(10))>>

\* The operands (tokens after the first) that are no RegisterIndex.
BadOperands(t) == {k \in 2..Len(t) : ~IsOperand(t[k])}

\* C10: the error of a line is "No tokens" for no token; else "Unknown
\* token" with the first token if that is no opcode; else "Not 2 tokens"
\* (INC, DEC, GOTO) or "Not 3 tokens" (GOTOZ) for a wrong token count,
\* whatever the operands are; else "is not a number" with the leftmost
\* operand that is none.
C10_ErrorOrder ==
    (LineDone /\ ParseFailed) =>
        LET t == GrammarTokens(SourceLines[1])
            e == panic.error.inner
        IN  IF Len(t) = 0 THEN e.kind = "No tokens in"
            ELSE IF t[1] \notin {STOP, INC, DEC, GOTO, GOTOZ}
            THEN e.kind = "Unknown token" /\ e.arg = t[1]
            ELSE IF t[1] \in {INC, DEC, GOTO} /\ Len(t) # 2
            THEN e.kind = "Not 2 tokens in"
            ELSE IF t[1] = GOTOZ /\ Len(t) # 3
            THEN e.kind = "Not 3 tokens in"
            ELSE /\ e.kind = "is not a number"
                 /\ BadOperands(t) # {}
                 /\ \E k \in BadOperands(t) :
                        /\ \A j \in BadOperands(t) : k <= j
                        /\ e.arg = t[k]

\* "INC x 10" is refused for its token count, not for its operand "x".
C10_Witness ==
    /\ ParseFailed
    /\ program_code = Line(<<INC, <<"x">>, <<"1", "0">>>>)
    /\ panic.error.inner.kind = "Not 2 tokens in"

\* ------------------------------------------------ claims: faults and halting

Faulted == main_pc = "panicked"

\* The register an Inc or Dec at program_counter is about to change exists.
AtCell(op) == AtInstruction(op) /\ InBounds(memory, Current.cell)

\* C11: a step at Dec{cell} whose register holds 0 ends the run in a fault
\* and changes no register, so the register never becomes 2^64 - 1 by
\* wrapping.
C11_DecZeroFaults ==
    [][ (AtCell("Dec") /\ IsZero(Reg(memory, Current.cell)))
          => Faulted' /\ memory' = memory
      ]_vars

\* Index w is below n, as integers.
Below(w, n) == w[1] < n /\ \A i \in 2..NumLimbs : w[i] = 0

\* The step about to be taken reads outside the program or outside memory.
OutOfBoundsAccess ==
    /\ main_pc = "run"
    /\ IF ~Below(program_counter, Len(program)) THEN TRUE
       ELSE \/ /\ Current.op \in {"Inc", "Dec"}
               /\ ~Below(Current.cell, Len(memory))
            \/ /\ Current.op = "GotoZ"
               /\ ~Below(Current.condition_cell, Len(memory))

\* C12: a step that would fetch at a program_counter >= the program's length,
\* or access a register index >= the length of memory (Inc, Dec, the
\* condition_cell of GotoZ), ends the run in an index-out-of-bounds fault and
\* changes neither a register nor program_counter; after a fault no step is
\* taken, so no further instruction is executed.
C12_OutOfBoundsFaults ==
    [][ /\ OutOfBoundsAccess =>
              /\ Faulted'
              /\ panic' = IndexOutOfBounds
              /\ memory' = memory
              /\ program_counter' = program_counter
        /\ Faulted =>
              /\ Faulted'
              /\ panic' = panic
              /\ memory' = memory
              /\ program_counter' = program_counter
      ]_vars

C12_Witness ==
    /\ Faulted
    /\ panic = IndexOutOfBounds
    /\ program = <<Inc(Word(0)), GotoZ(Word(1), Word(0))>>
    /\ program_counter = Word(1)
    /\ memory = <<Word(1)>>

\* Every jump target lies in the program and the last instruction never
\* advances program_counter past the end.
ClosedProgram ==
    /\ program # <<>>
    /\ program[Len(program)].op \in {"Stop", "Goto"}
    /\ \A k \in 1..Len(program) :
         /\ program[k].op = "Goto" => Below(program[k].cell, Len(program))
         /\ program[k].op = "GotoZ" =>
                Below(program[k].goto_cell, Len(program))

\* C13: while the run has neither halted nor faulted, program_counter is a
\* valid index into the program, for every program and initial memory.
C13_ValidCounter ==
    main_pc = "run" => Below(program_counter, Len(program))

\* C13, for the programs that keep it: while the run has neither halted nor
\* faulted, program_counter is a valid index into the program, if the program
\* is not empty, ends in Stop or Goto, and has all its jump targets below its
\* length.
C13_ValidCounterClosed ==
    (main_pc = "run" /\ ClosedProgram)
        => Below(program_counter, Len(program))

C13_Witness ==
    /\ main_pc = "run"
    /\ program = <<GotoZ(Word(0), Word(1)), Goto(Word(0))>>
    /\ memory = <<Word(1)>>
    /\ program_counter = Word(1)

\* run is a loop that nothing blocks: while an iteration is possible, one is
\* taken.
SpecRunFair == InitRun /\ [][run]_vars /\ WF_vars(run)

Halted == main_pc = "done"

\* The step about to be taken takes a register out of the values followed.
LeavesRange ==
    \/ /\ AtCell("Inc")
       /\ ~(Reg(memory, Current.cell) = U64_MAX /\ overflow_checks)
       /\ ~Tracked(wrapping_add1(Reg(memory, Current.cell)))
    \/ /\ AtCell("Dec")
       /\ ~(IsZero(Reg(memory, Current.cell)) /\ overflow_checks)
       /\ ~Tracked(wrapping_sub1(Reg(memory, Current.cell)))

\* C14: every run, for every program and initial memory, eventually halts on
\* Stop or ends in a fault (a run is followed while its registers stay within
\* MaxCount of 0 or of 2^64 - 1).
C14_Terminates == <>(Halted \/ Faulted \/ LeavesRange)

\* Every Goto and GotoZ of the program jumps to a later instruction.
ForwardJumps ==
    \A k \in 1..Len(program) :
        /\ program[k].op = "Goto" => ~Below(program[k].cell, k)
        /\ program[k].op = "GotoZ" => ~Below(program[k].goto_cell, k)

\* C14, for the programs that keep it: every run of a program whose jumps all
\* go forward eventually halts on Stop or ends in a fault.
C14_ForwardTerminates == ForwardJumps => <>(Halted \/ Faulted)

C14_Witness ==
    /\ Halted
    /\ program = <<GotoZ(Word(0), Word(1)), Stop>>
    /\ memory = <<Word(0)>>
    /\ program_counter = Word(1)

\* ---------------------------------------------------- claims: the whole run

ReadFailures == {"Error while reading code", "Error while reading input"}

CountRun == program_code = CountSource /\ input_text = <<"0">>

\* The states (program_counter, memory) the counting program goes through.
CountStates ==
    << <<Word(0), <<Word(0)>>>>, <<Word(1), <<Word(1)>>>>,
       <<Word(2), <<Word(1)>>>>, <<Word(3), <<Word(2)>>>> >>

ExecutorState == <<program_counter, memory>>

\* C15: the run of [Inc{0}, GotoZ{0,3}, Inc{0}, Stop] from program_counter 0
\* and memory [0] is in one of the states (0,[0]), (1,[1]), (2,[1]), (3,[2])
\* and in no other, each step goes from one of them to the next in that
\* order, the step at the last one halts, with memory [2], and no step faults.
C15_CountTrace ==
    /\ [](CountRun /\ main_pc \in {"run", "done"} =>
             /\ program = <<Inc(Word(0)), GotoZ(Word(0), Word(3)),
                            Inc(Word(0)), Stop>>
             /\ \E k \in 1..4 : ExecutorState = CountStates[k]
             /\ Halted => ExecutorState = CountStates[4])
    /\ [](CountRun /\ Faulted => panic.kind \in ReadFailures)
    /\ [][ (CountRun /\ main_pc = "run") =>
              \/ /\ main_pc' = "run"
                 /\ \E k \in 1..3 : /\ ExecutorState = CountStates[k]
                                    /\ ExecutorState' = CountStates[k + 1]
              \/ /\ Halted'
                 /\ ExecutorState = CountStates[4]
                 /\ ExecutorState' = CountStates[4]
         ]_vars

C15_Witness ==
    /\ CountRun
    /\ Halted
    /\ program_counter = Word(3)
    /\ memory = <<Word(2)>>

SourceParses == \A k \in 1..Len(SourceLines) : try_from(SourceLines[k]).ok

InputLoads == read_input(input_text).ok

\* run has been called: it is running, has returned, or has panicked.
ExecutorStarted ==
    \/ main_pc \in {"run", "done"}
    \/ Faulted /\ panic \in {IndexOutOfBounds, AddOverflow, SubOverflow}

\* C16: run is called only after the source has parsed and the input has
\* loaded; until then no instruction is fetched (program_counter and memory
\* are as constructed and run has printed nothing); a failure to read or to
\* parse either file ends the process with no further step; run starts at
\* program_counter 0 on the parsed program and exactly the loaded memory.
C16_RunAfterLoad ==
    /\ [](ExecutorStarted => SourceParses /\ InputLoads)
    /\ [](~ExecutorStarted =>
             program_counter = Word(0) /\ memory = <<>> /\ printed = 0)
    /\ [][ /\ (Faulted /\ ~ExecutorStarted) => UNCHANGED vars
           /\ (main_pc # "run" /\ main_pc' = "run") =>
                 /\ program_counter' = Word(0)
                 /\ memory' = read_input(input_text).val
                 /\ program' = result
                 /\ Len(program') = Len(SourceLines)
                 /\ printed' = 0
                 /\ input_text = <<"1", " ", "0", "\n">> =>
                        memory' = <<Word(1), Word(0)>>
         ]_vars

\* The input "1 x 2" does not load: the process has ended before run.
C16_Witness ==
    /\ Faulted
    /\ panic.kind = "Error while parsing input"
    /\ program_code = Line(<<INC, <<"0">>>>)
    /\ input_text = <<"1", " ", "x", " ", "2">>
    /\ result = <<Inc(Word(0))>>
    /\ program = <<>>
    /\ memory = <<>>

\* -------------------------------------------------------- claims: the input

\* The tokens of an input text: its maximal runs of characters that are
\* neither a space nor a newline, from left to right.
IsSeparator(c) == c = " " \/ c = "\n"

InputStarts(s) ==
    {i \in 1..Len(s) : ~IsSeparator(s[i]) /\ (i = 1 \/ IsSeparator(s[i - 1]))}

InputEnd(s, i) ==
    CHOOSE j \in i..Len(s) :
        /\ \A k \in i..j : ~IsSeparator(s[k])
        /\ j = Len(s) \/ IsSeparator(s[j + 1])

TextTokens(s) ==
    LET starts == InputStarts(s)
        nth(n) == CHOOSE i \in starts :
                      Cardinality({j \in starts : j < i}) = n - 1
    IN  [n \in 1..Cardinality(starts) |->
            SubSeq(s, nth(n), InputEnd(s, nth(n)))]

RECURSIVE DecimalValue(_)
DecimalValue(d) ==
    IF d = <<>> THEN 0
    ELSE 10 * DecimalValue(SubSeq(d, 1, Len(d) - 1)) + DigitVal(d[Len(d)])

\* The integer a numeral denotes, for the numerals of the input texts: the
\* largest u64, or a numeral of a few digits.
Denoted(t) ==
    LET d == IF t[1] = "+" THEN Tail(t) ELSE t
    IN  IF d = U64_MAX_TEXT THEN [i \in 1..NumLimbs |-> LimbBase - 1]
        ELSE Word(DecimalValue(d))

\* What is wrong with a token that denotes no u64: it is a numeral too large,
\* or it is no numeral.
Defect(t) ==
    LET d == IF t[1] = "+" THEN Tail(t) ELSE t
    IN  IF d # <<>> /\ \A k \in 1..Len(d) : IsDigit(d[k])
        THEN "PosOverflow" ELSE "InvalidDigit"

LoadFailed == Faulted /\ panic.kind = "Error while parsing input"

\* C17: once the input is read, either every token of the text (maximal runs
\* of characters other than space and newline) denotes an unsigned 64-bit
\* integer and memory holds these integers in the order of the tokens, or
\* some token does not, the process has ended on the error of the first such
\* token, and memory holds nothing.
C17_ReadInput ==
    LET t == TextTokens(input_text)
        bad == {k \in 1..Len(t) : ~IsOperand(t[k])}
        first == CHOOSE k \in bad : \A j \in bad : k <= j
    IN  /\ main_pc = "run" =>
              /\ bad = {}
              /\ Len(memory) = Len(t)
              /\ \A k \in 1..Len(t) : memory[k] = Denoted(t[k])
        /\ LoadFailed =>
              /\ bad # {}
              /\ memory = <<>>
              /\ panic.error =
                     Msg("Number parsing error", <<>>, Defect(t[first]))

\* Two numbers after a blank line, a mixed run of separators between them.
C17_Witness ==
    /\ main_pc = "run"
    /\ input_text = <<"\n">> \o U64_MAX_TEXT \o <<" ", "\n", "1", "2">>
    /\ memory = <<U64_MAX, Word(12)>>

\* ----------------------------------------------- claims: halting and faults

\* C18: the executor returns only by a step at a Stop instruction: whenever
\* it has halted, program_counter is at a Stop; a program with no Stop in it
\* never halts.
C18_HaltOnlyOnStop ==
    /\ [](Halted =>
             /\ Below(program_counter, Len(program))
             /\ Current = Stop)
    /\ []((\A k \in 1..Len(program) : program[k].op # "Stop") => ~Halted)
    /\ [][(~Halted /\ Halted') => AtInstruction("Stop")]_vars

C18_Witness ==
    /\ Halted
    /\ program = <<Inc(Word(0)), Stop>>
    /\ memory = <<Word(1)>>
    /\ program_counter = Word(1)

\* All 64 bits set: 2^64 - 1.
AllOnes(w) == \A i \in 1..NumLimbs : w[i] = LimbBase - 1

\* C19: a step at Inc{cell} whose register holds 2^64 - 1 ends the run in a
\* fault and changes no register, so the register never becomes 0 by wrapping.
C19_IncMaxFaults ==
    [][ (AtCell("Inc") /\ AllOnes(Reg(memory, Current.cell)))
          => Faulted' /\ memory' = memory
      ]_vars

\* ------------------------------------------------- claims: the empty source

\* The text has a line of spaces only, or of nothing: a stretch from the start
\* of the text or from after a "\n", up to a "\n" or to the end of the text,
\* that starts within the text.
HasBlankLine(text) ==
    \E i \in 1..Len(text) :
        /\ i = 1 \/ text[i - 1] = "\n"
        /\ \E j \in (i - 1)..Len(text) :
              /\ \A k \in i..j : text[k] = " "
              /\ j = Len(text) \/ text[j + 1] = "\n"

\* C20: the empty source parses, to the empty program; a source with a blank
\* line does not parse, and the error of a blank line is that of a line with
\* no token; the run of the empty program ends at its first step in an
\* index-out-of-bounds fault, with memory and program_counter as loaded and
\* nothing executed.
C20_EmptyAndBlank ==
    /\ [](program_code = <<>> =>
             /\ ~ParseFailed
             /\ ParseReturned => result = <<>>
             /\ ExecutorStarted => program = <<>> /\ ~Halted)
    /\ [](HasBlankLine(program_code) => ~ParseReturned)
    /\ [](ParseFailed =>
             LET line == SourceLines[panic.error.line]
             IN  (\A k \in 1..Len(line) : line[k] = " ")
                     <=> panic.error.inner.kind = "No tokens in")
    /\ [][ (main_pc = "run" /\ program = <<>>) =>
              /\ Faulted'
              /\ panic' = IndexOutOfBounds
              /\ memory' = memory
              /\ program_counter = Word(0) /\ program_counter' = Word(0)
              /\ printed' = 0
         ]_vars

C20_Witness ==
    /\ Faulted
    /\ panic = IndexOutOfBounds
    /\ program_code = <<>>
    /\ input_text = <<"1", " ", "0", "\n">>
    /\ program = <<>>
    /\ memory = <<Word(1), Word(0)>>

====
